---- MODULE Spec2Model ----
(***************************************************************************)
(* The Student and Teacher resource handlers of school-api                 *)
(* (student controller, teacher.controller.js) as a state machine.         *)
(*                                                                         *)
(* Every handler is an async function: it runs to its first await, the     *)
(* database executes the awaited call atomically, and the handler resumes  *)
(* with the result (or the error) and runs to its next await or to its     *)
(* response.  One action models the arrival of a request up to the first   *)
(* await, and one action models each awaited call together with the code   *)
(* that runs when it settles.                                              *)
(***************************************************************************)
EXTENDS Integers, Sequences, FiniteSets, TLC

VARIABLES
    store,       \* store[r]: the rows of table r, a function id -> record
    nextId,      \* nextId[r]: the next value of table r's auto-increment id
    courses,     \* the number of rows of the Course table
    reqs,        \* reqs[s]: the request handled in slot s (locals, position, response)
    ackDeleted   \* history: ackDeleted[r] = ids whose delete was answered 200 'Deleted'

vars == <<store, nextId, courses, reqs, ackDeleted>>

(***************************************************************************)
(* Bounds                                                                  *)
(***************************************************************************)
MaxId == 2
MaxReq == 2
MaxRecords == 5
MaxCourses == 3
MaxTables == 1
MaxListReq == 1

Resources == {"Student", "Teacher"}
Slots == 1..MaxReq
Ids == 1..MaxId

(***************************************************************************)
(* Values                                                                  *)
(***************************************************************************)
Null == [null |-> TRUE]
NoJson == [none |-> TRUE]
Undefined == [defined |-> FALSE, chars |-> <<>>]
Str(cs) == [defined |-> TRUE, chars |-> cs]

ErrorMessage == "SequelizeDatabaseError"

CreateBodies == {[name |-> "n1", department |-> "d1"]}
Patches == {[name |-> "n2"], [department |-> "d2"],
            [name |-> "n2", department |-> "d2"], [id |-> 2, name |-> "n1"]}

NoQuery == [limit |-> Undefined, page |-> Undefined, sortBy |-> Undefined,
            order |-> Undefined, populate |-> Undefined]

Idle == [op |-> "none", res |-> "none", pc |-> "idle", id |-> 0, body |-> <<>>,
         query |-> NoQuery, limit |-> 0, page |-> 0, sortBy |-> "", order |-> "",
         includes |-> <<>>, total |-> 0, inst |-> Null, status |-> 0, json |-> NoJson,
         rows |-> 0, failed |-> FALSE, afterAck |-> FALSE]

\* A slot takes a new request when it holds none or an answered one.
Free(s) == reqs[s].pc \in {"idle", "done", "escaped"}

\* The tables a behaviour has sent requests to; a behaviour exercises at most
\* MaxTables of them (the two controllers share no table but Course).
Touched == {r \in Resources : \E s \in Slots : reqs[s].res = r}
MayTouch(r) == Cardinality(Touched \cup {r}) <= MaxTables

\* res.status(code).json(body): the response of the request in slot s.
Respond(r, code, body) == [r EXCEPT !.pc = "done", !.status = code, !.json = body]

\* catch (err) { res.status(500).json({ error: err.message }) }
CatchRespond(r) == [Respond(r, 500, [error |-> ErrorMessage]) EXCEPT !.failed = TRUE]

(***************************************************************************)
(* The persistence calls the handlers make                                 *)
(***************************************************************************)
\* The id the table's auto-increment gives the next row.
NewId(r) == nextId[r]

\* Model.create(body): the row built from the body, with its generated id.
NewRecord(r, body) ==
    [id |-> NewId(r),
     name |-> IF "name" \in DOMAIN body THEN body.name ELSE "",
     department |-> IF "department" \in DOMAIN body THEN body.department ELSE ""]

\* Model.findByPk(id): the row, or null.
FindByPk(r, id) == IF id \in DOMAIN store[r] THEN store[r][id] ELSE Null

\* instance.update(patch) on the instance in memory: the attributes the patch
\* names take its values; the primary key of a loaded instance is not settable.
ApplyPatch(inst, patch) ==
    [f \in DOMAIN inst |->
        IF f \in DOMAIN patch /\ f # "id" THEN patch[f] ELSE inst[f]]

\* instance.update(patch) on the table: UPDATE r SET <patch> WHERE id = inst.id.
UpdateRow(r, inst, patch) ==
    IF inst.id \in DOMAIN store[r]
    THEN [store EXCEPT ![r][inst.id] = ApplyPatch(store[r][inst.id], patch)]
    ELSE store

\* instance.destroy(): DELETE FROM r WHERE id = inst.id.
DestroyRow(r, inst) ==
    [store EXCEPT ![r] = [i \in DOMAIN store[r] \ {inst.id} |-> store[r][i]]]

\* The rows the write of an instance affects.
RowsAffected(r, inst) == IF inst.id \in DOMAIN store[r] THEN 1 ELSE 0

(***************************************************************************)
(* create                                                                  *)
(***************************************************************************)
CreatesInFlight(r) == Cardinality({s \in Slots : reqs[s].pc = "create" /\ reqs[s].res = r})

CreateStart(s, r) ==
    /\ Free(s)
    /\ MayTouch(r)
    /\ nextId[r] + CreatesInFlight(r) <= MaxId
    /\ \E b \in CreateBodies :
         reqs' = [reqs EXCEPT ![s] = [Idle EXCEPT !.op = "create", !.res = r,
                                                  !.pc = "create", !.body = b]]
    /\ UNCHANGED <<store, nextId, courses, ackDeleted>>

CreatedJsonBug(r, body) == body
CreatedJson(r, body) == NewRecord(r, body)

CreateAwait(s, r) ==
    /\ reqs[s].pc = "create" /\ reqs[s].res = r
    /\ \/ /\ store' = [store EXCEPT ![r] = (NewId(r) :> NewRecord(r, reqs[s].body)) @@ store[r]]
          /\ nextId' = [nextId EXCEPT ![r] = @ + 1]
          /\ reqs' = [reqs EXCEPT ![s] =
                        Respond([@ EXCEPT !.rows = 1], 201, CreatedJson(r, reqs[s].body))]
       \/ /\ reqs' = [reqs EXCEPT ![s] = CatchRespond(@)]
          /\ UNCHANGED <<store, nextId>>
    /\ UNCHANGED <<courses, ackDeleted>>

Create(s, r) == CreateStart(s, r) \/ CreateAwait(s, r)

(***************************************************************************)
(* get by id                                                               *)
(***************************************************************************)
ItemStart(s, r, op, id, body) ==
    /\ Free(s)
    /\ MayTouch(r)
    /\ reqs' = [reqs EXCEPT ![s] = [Idle EXCEPT !.op = op, !.res = r, !.pc = "findByPk",
                                                !.id = id, !.body = body,
                                                !.afterAck = (id \in ackDeleted[r])]]
    /\ UNCHANGED <<store, nextId, courses, ackDeleted>>

NotFoundBug(r) == Respond(r, 200, [message |-> "Not found"])
NotFound(r) == Respond(r, 404, [message |-> "Not found"])

\* if (!student) return res.status(404)...; otherwise the handler goes on.
LookupMiss(inst) == inst = Null

GetByIdAwait(s, r) ==
    /\ reqs[s].pc = "findByPk" /\ reqs[s].op = "getById" /\ reqs[s].res = r
    /\ \/ LET inst == FindByPk(r, reqs[s].id) IN
            reqs' = [reqs EXCEPT ![s] =
                       IF LookupMiss(inst) THEN NotFound([@ EXCEPT !.inst = inst])
                       ELSE Respond([@ EXCEPT !.inst = inst], 200, inst)]
       \/ reqs' = [reqs EXCEPT ![s] = CatchRespond(@)]
    /\ UNCHANGED <<store, nextId, courses, ackDeleted>>

GetById(s, r) ==
    \/ \E id \in Ids : ItemStart(s, r, "getById", id, <<>>)
    \/ GetByIdAwait(s, r)

(***************************************************************************)
(* update                                                                  *)
(***************************************************************************)
\* const student = await findByPk(id); if (!student) return 404
WriteFind(s, r, op, next) ==
    /\ reqs[s].pc = "findByPk" /\ reqs[s].op = op /\ reqs[s].res = r
    /\ \/ LET inst == FindByPk(r, reqs[s].id) IN
            reqs' = [reqs EXCEPT ![s] =
                       IF LookupMiss(inst) THEN NotFound([@ EXCEPT !.inst = inst])
                       ELSE [@ EXCEPT !.inst = inst, !.pc = next]]
       \/ reqs' = [reqs EXCEPT ![s] = CatchRespond(@)]
    /\ UNCHANGED <<store, nextId, courses, ackDeleted>>

\* await student.update(req.body); res.json(student)
UpdateApply(s, r) ==
    /\ reqs[s].pc = "update" /\ reqs[s].res = r
    /\ \/ /\ store' = UpdateRow(r, reqs[s].inst, reqs[s].body)
          /\ LET after == ApplyPatch(reqs[s].inst, reqs[s].body) IN
               reqs' = [reqs EXCEPT ![s] =
                          Respond([@ EXCEPT !.inst = after,
                                            !.rows = RowsAffected(r, reqs[s].inst)],
                                  200, after)]
       \/ /\ reqs' = [reqs EXCEPT ![s] = CatchRespond(@)]
          /\ UNCHANGED store
    /\ UNCHANGED <<nextId, courses, ackDeleted>>

Update(s, r) ==
    \/ \E id \in Ids, p \in Patches : ItemStart(s, r, "update", id, p)
    \/ WriteFind(s, r, "update", "update")
    \/ UpdateApply(s, r)

(***************************************************************************)
(* delete                                                                  *)
(***************************************************************************)
DestroyedStoreBug(r, inst) == store
DestroyedStore(r, inst) == DestroyRow(r, inst)

\* await student.destroy(); res.json({ message: 'Deleted' })
DeleteApply(s, r) ==
    /\ reqs[s].pc = "destroy" /\ reqs[s].res = r
    /\ \/ /\ store' = DestroyedStore(r, reqs[s].inst)
          /\ reqs' = [reqs EXCEPT ![s] =
                        Respond([@ EXCEPT !.rows = RowsAffected(r, reqs[s].inst)],
                                200, [message |-> "Deleted"])]
          /\ ackDeleted' = [ackDeleted EXCEPT ![r] = @ \cup {reqs[s].id}]
       \/ /\ reqs' = [reqs EXCEPT ![s] = CatchRespond(@)]
          /\ UNCHANGED <<store, ackDeleted>>
    /\ UNCHANGED <<nextId, courses>>

Delete(s, r) ==
    \/ \E id \in Ids : ItemStart(s, r, "delete", id, <<>>)
    \/ WriteFind(s, r, "delete", "destroy")
    \/ DeleteApply(s, r)

(***************************************************************************)
(* list (getAllStudents / getAllTeachers)                                  *)
(***************************************************************************)
Digits == <<"0", "1", "2", "3", "4", "5", "6", "7", "8", "9">>
IsDigit(c) == \E i \in 1..10 : Digits[i] = c
DigitVal(c) == (CHOOSE i \in 1..10 : Digits[i] = c) - 1
IsSpace(c) == c = " "

RECURSIVE SkipSpaces(_)
SkipSpaces(cs) ==
    IF cs # <<>> /\ IsSpace(Head(cs)) THEN SkipSpaces(Tail(cs)) ELSE cs

\* The value of the longest prefix of digits of cs, acc being the value so far.
RECURSIVE ParseDigits(_, _)
ParseDigits(cs, acc) ==
    IF cs # <<>> /\ IsDigit(Head(cs))
    THEN ParseDigits(Tail(cs), 10 * acc + DigitVal(Head(cs)))
    ELSE acc

NaN == [nan |-> TRUE, val |-> 0]

\* parseInt(v): v as a string ("undefined" when the parameter is missing), leading
\* white space skipped, an optional sign, then the longest prefix of decimal
\* digits; NaN when there is no digit.  What follows the digits is ignored.
ParseInt(v) ==
    LET cs == IF v.defined THEN SkipSpaces(v.chars) ELSE <<"u", "n", "d">>
        neg == cs # <<>> /\ Head(cs) = "-"
        ds == IF cs # <<>> /\ Head(cs) \in {"-", "+"} THEN Tail(cs) ELSE cs
    IN  IF ds = <<>> \/ ~IsDigit(Head(ds)) THEN NaN
        ELSE [nan |-> FALSE, val |-> IF neg THEN 0 - ParseDigits(ds, 0)
                                            ELSE ParseDigits(ds, 0)]

\* parseInt(v) || d: NaN and 0 are falsy.
ParseOrBug(v, d) ==
    LET p == ParseInt(v) IN IF p.nan \/ p.val = 0 THEN 1 ELSE p.val
ParseOr(v, d) ==
    LET p == ParseInt(v) IN IF p.nan \/ p.val = 0 THEN d ELSE p.val

\* v || d for a string parameter: undefined and "" are falsy.
StrOr(v, d) == IF ~v.defined \/ v.chars = "" THEN d ELSE v.chars

\* s.split(','): the pieces of s between its commas.
RECURSIVE Split(_, _)
Split(cs, cur) ==
    IF cs = <<>> THEN <<cur>>
    ELSE IF Head(cs) = "," THEN <<cur>> \o Split(Tail(cs), <<>>)
    ELSE Split(Tail(cs), Append(cur, Head(cs)))

\* req.query.populate?.split(',') || []
Populate(v) == IF v.defined THEN Split(v.chars, <<>>) ELSE <<>>

\* if (populate.find(e => e === 'Course')) includes.push({model: Course})
Includes(populate) ==
    IF \E i \in 1..Len(populate) : populate[i] = <<"Course">>
    THEN <<[model |-> "Course"]>> ELSE <<>>

\* offset: (page - 1) * limit
OffsetBug(page, limit) == page * limit
Offset(page, limit) == (page - 1) * limit

\* Math.ceil(total / limit), for total >= 0 and limit # 0
TotalPagesBug(total, limit) ==
    IF limit > 0 THEN total \div limit ELSE 0 - (total \div (0 - limit))
TotalPages(total, limit) ==
    IF limit > 0 THEN (total + limit - 1) \div limit
    ELSE 0 - (total \div (0 - limit))

QueryNumbers ==
    {Undefined, Str(<<"2">>), Str(<<"3">>), Str(<<" ", "1">>), Str(<<"1", "0">>),
     Str(<<"0">>), Str(<<"-", "1">>), Str(<<"x">>), Str(<<"2", "x">>)}
QuerySortBy == {Undefined, Str("name")}
QueryOrder == {Undefined, Str("DESC")}
QueryPopulate == {Undefined, Str(<<"E", ",", "Course">>)}

Queries ==
    [limit : QueryNumbers, page : QueryNumbers, sortBy : QuerySortBy,
     order : QueryOrder, populate : QueryPopulate]

\* The handler up to its first await: the parameters are read, count() is called.
\* A list request leaves nothing behind but its response, so a slot serves one
\* list request in a behaviour, and MaxListReq slots serve them.
ListStart(s, r) ==
    /\ reqs[s].pc = "idle"
    /\ s <= MaxListReq
    /\ MayTouch(r)
    /\ \E q \in Queries :
         reqs' = [reqs EXCEPT ![s] =
                    [Idle EXCEPT !.op = "getAll", !.res = r, !.pc = "count", !.query = q,
                                 !.limit = ParseOr(q.limit, 10),
                                 !.page = ParseOr(q.page, 1),
                                 !.sortBy = StrOr(q.sortBy, "id"),
                                 !.order = StrOr(q.order, "asc")]]
    /\ UNCHANGED <<store, nextId, courses, ackDeleted>>

\* const total = await db.Course.count(): the call stands outside the try block,
\* so its rejection rejects the handler's promise and no response is sent.
CountRejected(r) == [r EXCEPT !.pc = "escaped", !.failed = TRUE]

ListCount(s, r) ==
    /\ reqs[s].pc = "count" /\ reqs[s].res = r
    /\ \/ reqs' = [reqs EXCEPT ![s] =
                     [@ EXCEPT !.total = courses, !.pc = "findAll",
                               !.includes = Includes(Populate(reqs[s].query.populate))]]
       \/ reqs' = [reqs EXCEPT ![s] = CountRejected(@)]
    /\ UNCHANGED <<store, nextId, courses, ackDeleted>>

\* ORDER BY col dir: a comes no later than b.
NameRank(n) == CHOOSE i \in 1..3 : <<"a", "b", "c">>[i] = n
Rank(rec, col) == IF col = "name" THEN NameRank(rec.name) ELSE rec.id
Before(a, b, col, dir) ==
    IF dir \in {"DESC", "desc"} THEN Rank(a, col) >= Rank(b, col)
    ELSE Rank(a, col) <= Rank(b, col)

\* The orders in which the database may return the rows of table r: every
\* arrangement of all the rows that respects ORDER BY (rows with equal keys come
\* in any order).  An arrangement starts with a row that no other row must
\* precede and goes on with an arrangement of the others.
RECURSIVE Arrangements(_, _, _)
Arrangements(rows, col, dir) ==
    IF rows = {} THEN {<<>>}
    ELSE UNION {{<<m>> \o rest : rest \in Arrangements(rows \ {m}, col, dir)} :
                  m \in {x \in rows : \A y \in rows : Before(x, y, col, dir)}}

Sorted(r, col, dir) ==
    Arrangements({store[r][i] : i \in DOMAIN store[r]}, col, dir)

Min(a, b) == IF a < b THEN a ELSE b
Max(a, b) == IF a > b THEN a ELSE b

\* LIMIT limit OFFSET offset over the ordered rows (a negative limit bounds
\* nothing and a negative offset skips nothing, where the database accepts them).
PageOf(rows, limit, offset) ==
    LET from == Max(offset, 0) + 1
        to == IF limit < 0 THEN Len(rows) ELSE Min(Max(offset, 0) + limit, Len(rows))
    IN  SubSeq(rows, from, to)

ListMeta(req) ==
    [totalItems |-> req.total, page |-> req.page,
     totalPages |-> TotalPages(req.total, req.limit)]

\* await findAll({include, limit, offset, order}); res.json({meta, data})
ListFindAll(s, r) ==
    /\ reqs[s].pc = "findAll" /\ reqs[s].res = r
    /\ \/ \E rows \in Sorted(r, reqs[s].sortBy, reqs[s].order) :
            reqs' = [reqs EXCEPT ![s] =
                       Respond(@, 200,
                               [meta |-> ListMeta(reqs[s]),
                                data |-> PageOf(rows, reqs[s].limit,
                                                Offset(reqs[s].page, reqs[s].limit))])]
       \/ reqs' = [reqs EXCEPT ![s] = CatchRespond(@)]
    /\ UNCHANGED <<store, nextId, courses, ackDeleted>>

GetAll(s, r) == ListStart(s, r) \/ ListCount(s, r) \/ ListFindAll(s, r)

\* The Course table is written by other parts of the application.
CourseChange ==
    /\ \E c \in 0..MaxCourses : c # courses /\ courses' = c
    /\ UNCHANGED <<store, nextId, reqs, ackDeleted>>

(***************************************************************************)
(* The handlers of the two controllers                                     *)
(***************************************************************************)
createStudent(s) == Create(s, "Student")
getStudentById(s) == GetById(s, "Student")
updateStudent(s) == Update(s, "Student")
deleteStudent(s) == Delete(s, "Student")
getAllStudents(s) == GetAll(s, "Student")

createTeacher(s) == Create(s, "Teacher")
getTeacherById(s) == GetById(s, "Teacher")
updateTeacher(s) == Update(s, "Teacher")
deleteTeacher(s) == Delete(s, "Teacher")
getAllTeachers(s) == GetAll(s, "Teacher")

Init ==
    /\ store = [r \in Resources |-> <<>>]
    /\ nextId = [r \in Resources |-> 1]
    /\ courses = 0
    /\ reqs = [s \in Slots |-> Idle]
    /\ ackDeleted = [r \in Resources |-> {}]

Next ==
    \E s \in Slots :
        \/ createStudent(s)
        \/ getStudentById(s)
        \/ updateStudent(s)
        \/ deleteStudent(s)
        \/ createTeacher(s)
        \/ getTeacherById(s)
        \/ updateTeacher(s)
        \/ deleteTeacher(s)

Spec == Init /\ [][Next]_vars

(***************************************************************************)
(* The list handlers, over every population of the tables up to MaxRecords *)
(* rows.  They read the tables and never write them.                       *)
(***************************************************************************)
Names == <<"b", "a", "c", "a", "b", "c", "a">>
Population(n) ==
    [i \in 1..n |-> [id |-> i, name |-> Names[((i - 1) % 7) + 1], department |-> "d1"]]

InitList ==
    /\ \E n \in 0..MaxRecords :
         /\ store = [r \in Resources |-> Population(n)]
         /\ nextId = [r \in Resources |-> n + 1]
    /\ courses = 0
    /\ reqs = [s \in Slots |-> Idle]
    /\ ackDeleted = [r \in Resources |-> {}]

NextList ==
    \/ \E s \in Slots : getAllStudents(s)
    \/ \E s \in Slots : getAllTeachers(s)
    \/ CourseChange

SpecList == InitList /\ [][NextList]_vars

(***************************************************************************)
(* Properties                                                              *)
(***************************************************************************)
Answered(s) == reqs[s].pc = "done"
ItemOps == {"getById", "update", "delete"}
NotFoundJson == [message |-> "Not found"]

\* C1: every failure of a persistence call made during a handler is caught in
\* the handler and answered 500 {error: <message>}; none escapes the handler or
\* leaves the request without a response.
C1_FailuresCaught ==
    \A s \in Slots :
        reqs[s].failed =>
            /\ Answered(s)
            /\ reqs[s].status = 500
            /\ reqs[s].json = [error |-> ErrorMessage]

\* C2: when get-by-id, update or delete look their id up and no row has it (and
\* the lookup itself does not fail), the handler answers 404 {message: 'Not
\* found'} at once, calls neither update nor destroy, and the tables keep their
\* rows and every field value.
C2_NotFound ==
    [][\A s \in Slots :
         (/\ reqs[s].pc = "findByPk"
          /\ reqs'[s].pc # "findByPk"
          /\ reqs[s].id \notin DOMAIN store[reqs[s].res]
          /\ ~reqs'[s].failed)
         => /\ reqs'[s].pc = "done"
            /\ reqs'[s].status = 404
            /\ reqs'[s].json = NotFoundJson
            /\ reqs'[s].rows = 0
            /\ store' = store]_vars

C2_Witness ==
    \E s \in Slots :
        /\ Answered(s) /\ reqs[s].op = "update" /\ reqs[s].status = 404
        /\ reqs[s].id < nextId[reqs[s].res]

C4_UpdateFrame ==
    [][\A s \in Slots :
         (reqs[s].pc = "update" /\ reqs'[s].pc = "done" /\ reqs'[s].status = 200)
         => LET r == reqs[s].res
                id == reqs[s].id
                p == reqs[s].body
            IN  /\ id \in DOMAIN store[r]
                /\ DOMAIN store'[r] = DOMAIN store[r]
                /\ \A f \in {"name", "department"} :
                     store'[r][id][f] = IF f \in DOMAIN p THEN p[f] ELSE store[r][id][f]
                /\ store'[r][id].id = id
                /\ \A q \in Resources : \A i \in DOMAIN store[q] :
                     (q # r \/ i # id) => store'[q][i] = store[q][i]
                /\ reqs'[s].json = store'[r][id]]_vars

\* C5: a create answered 201 carries the generated id of the row it stored, an
\* id no other create of the table was given; the row stays under that id until
\* a delete removes it, a get-by-id that finds it answers 200 with the same id,
\* and no update changes the id of a row.
C5_State ==
    /\ \A r \in Resources : \A i \in DOMAIN store[r] \cup ackDeleted[r] : i < nextId[r]
    /\ \A r \in Resources : \A i \in DOMAIN store[r] : store[r][i].id = i
    /\ \A s \in Slots :
         (Answered(s) /\ reqs[s].op = "create" /\ reqs[s].status = 201) =>
            /\ "id" \in DOMAIN reqs[s].json
            /\ reqs[s].json.id \in 1..(nextId[reqs[s].res] - 1)
            /\ reqs[s].json.id \in DOMAIN store[reqs[s].res] \cup ackDeleted[reqs[s].res]
            /\ \A t \in Slots \ {s} :
                 (/\ Answered(t) /\ reqs[t].op = "create" /\ reqs[t].status = 201
                  /\ reqs[t].res = reqs[s].res)
                 => reqs[t].json.id # reqs[s].json.id
    /\ \A s \in Slots :
         (Answered(s) /\ reqs[s].op \in {"getById", "update"} /\ reqs[s].status = 200)
            => reqs[s].json.id = reqs[s].id

Descending(dir) == dir \in {"DESC", "desc"}
\* rec comes strictly before key k, or at k, in the order asked for
StrictlyBefore(rec, k, col, dir) ==
    IF Descending(dir) THEN Rank(rec, col) > k ELSE Rank(rec, col) < k
C6_PageOfRows ==
    /\ \A r \in Resources :
         store[r] = Population(Cardinality(DOMAIN store[r]))
    /\ \A s \in Slots :
         (/\ Answered(s) /\ reqs[s].op = "getAll" /\ reqs[s].status = 200
          /\ reqs[s].page >= 1 /\ reqs[s].limit >= 1)
         => LET r == reqs[s].res
                rows == {store[r][i] : i \in DOMAIN store[r]}
                N == Cardinality(rows)
                l == reqs[s].limit
                skip == (reqs[s].page - 1) * l
                data == reqs[s].json.data
                col == reqs[s].sortBy
                dir == reqs[s].order
            IN  /\ Len(data) = Min(l, Max(0, N - skip))
                /\ \A i \in 1..Len(data) : data[i] \in rows
                /\ \A i, j \in 1..Len(data) : i # j => data[i] # data[j]
                /\ \A i \in 1..Len(data) :
                     LET k == Rank(data[i], col)
                         lower == Cardinality({x \in rows : StrictlyBefore(x, k, col, dir)})
                         same == Cardinality({x \in rows : Rank(x, col) = k})
                     IN  lower <= skip + i - 1 /\ skip + i <= lower + same

C6_Witness ==
    \E s \in Slots :
        /\ Answered(s) /\ reqs[s].op = "getAll" /\ reqs[s].status = 200
        /\ Cardinality(DOMAIN store[reqs[s].res]) = 5
        /\ reqs[s].limit = 2 /\ reqs[s].page = 3 /\ reqs[s].sortBy = "name"
        /\ Len(reqs[s].json.data) = 1

\* C7: in a list answered 200, meta.page is the effective page, meta.totalItems
\* is the number of Course rows counted during the request (whatever the number
\* of rows of the table listed), and meta.totalPages is the ceiling of
\* meta.totalItems / effective limit.
C7_State ==
    \A s \in Slots :
        (Answered(s) /\ reqs[s].op = "getAll" /\ reqs[s].status = 200) =>
            LET m == reqs[s].json.meta
                l == reqs[s].limit
            IN  /\ m.page = reqs[s].page
                /\ m.totalItems = reqs[s].total
                /\ IF l > 0
                   THEN (m.totalPages - 1) * l < m.totalItems /\ m.totalItems <= m.totalPages * l
                   ELSE (m.totalPages - 1) * l > m.totalItems /\ m.totalItems >= m.totalPages * l

\* C7: C7_State holds in every state, and the total a list request reports is
\* the number of Course rows at the moment its count() ran.
C7_Meta ==
    /\ []C7_State
    /\ [][\A s \in Slots :
            (reqs[s].pc = "count" /\ reqs'[s].pc = "findAll")
            => reqs'[s].total = courses]_vars

C7_Witness ==
    \E s \in Slots :
        /\ Answered(s) /\ reqs[s].op = "getAll" /\ reqs[s].status = 200
        /\ reqs[s].json.meta.totalItems = 3
        /\ reqs[s].json.meta.totalPages = 2
        /\ Cardinality(DOMAIN store[reqs[s].res]) = 1
        /\ courses = 0

\* C8: a page or limit parameter that is missing or does not parse as an
\* integer is no error: page becomes 1 and limit becomes 10, each on its own;
\* a parameter that parses to a positive integer is used as given; and the
\* request is answered 200 unless a persistence call fails.
Unparsable == {Undefined, Str(<<"x">>)}
ParsedAs(v, n) ==
    \/ v = Str(<<"2">>) /\ n = 2
    \/ v = Str(<<"3">>) /\ n = 3
    \/ v = Str(<<" ", "1">>) /\ n = 1
    \/ v = Str(<<"1", "0">>) /\ n = 10
    \/ v = Str(<<"2", "x">>) /\ n = 2
C8_Defaults ==
    \A s \in Slots :
        reqs[s].op = "getAll" =>
            LET q == reqs[s].query IN
            /\ q.limit \in Unparsable => reqs[s].limit = 10
            /\ q.page \in Unparsable => reqs[s].page = 1
            /\ \A n \in 1..10 : ParsedAs(q.limit, n) => reqs[s].limit = n
            /\ \A n \in 1..10 : ParsedAs(q.page, n) => reqs[s].page = n
            /\ reqs[s].status \in {0, 200, 500}
            /\ reqs[s].status = 500 => reqs[s].failed
            /\ (Answered(s) /\ ~reqs[s].failed) => reqs[s].status = 200

C8_Witness ==
    \E s \in Slots :
        /\ Answered(s) /\ reqs[s].op = "getAll" /\ reqs[s].status = 200
        /\ reqs[s].query.page = Str(<<"x">>) /\ reqs[s].query.limit = Str(<<"2">>)
        /\ reqs[s].json.meta.page = 1 /\ Len(reqs[s].json.data) = 2

\* C9: whatever the page and limit parameters are, the list handler calls
\* findAll with a limit >= 1 and an offset (page-1)*limit >= 0, and reports a
\* meta.totalPages >= 0.
C9_SaneWindow ==
    \A s \in Slots :
        /\ (reqs[s].op = "getAll" /\ reqs[s].pc = "findAll") =>
              /\ reqs[s].limit >= 1
              /\ (reqs[s].page - 1) * reqs[s].limit >= 0
        /\ (Answered(s) /\ reqs[s].op = "getAll" /\ reqs[s].status = 200) =>
              reqs[s].json.meta.totalPages >= 0

\* C10: an update or a delete is answered 200 only if its row was there when
\* its update or destroy was applied; so no two deletes of one id are both
\* answered 200 'Deleted'.
C10_WriteHitsRow ==
    /\ \A s \in Slots :
         (Answered(s) /\ reqs[s].op \in {"update", "delete"} /\ reqs[s].status = 200)
            => reqs[s].rows = 1
    /\ \A s, t \in Slots :
         (/\ s # t
          /\ Answered(s) /\ reqs[s].op = "delete" /\ reqs[s].status = 200
          /\ Answered(t) /\ reqs[t].op = "delete" /\ reqs[t].status = 200
          /\ reqs[s].res = reqs[t].res)
         => reqs[s].id # reqs[t].id

====
